---- MODULE Spec2Model ----
(***************************************************************************)
(* Model of the chat frontend's view-state controller (App.js) and of the  *)
(* REST client it calls (services/api.js).                                 *)
(*                                                                         *)
(* React state lives in the variables patients .. error.  Event handlers   *)
(* are closures created by a render: they read the values that render saw  *)
(* (variable view), not the latest state.  A render is a step of its own   *)
(* (Render); the effect that depends on activePatient runs with it.        *)
(* HTTP requests are asynchronous: a request in flight is a record in      *)
(* listReq / histReqs / sendReqs / createReqs, and its completion is a     *)
(* separate step that may interleave with anything else.                   *)
(***************************************************************************)
EXTENDS Integers, Sequences, FiniteSets, TLC

\* ------------------------------------------------------------------ bounds
\* User operations (sends, creates, patient switches) in one session.
MaxOps == 2

\* ------------------------------------------------------------ value domains
\* Patient ids the backend hands out.  0 is a falsy id (`!activePatient.id`).
PatientIds == {0, 1, 2}
\* Texts the user leaves in the textarea, as sequences of characters: empty,
\* whitespace only, and text with whitespace around it.
Inputs == { <<>>, <<" ">>, <<" ", "a", " ">> }

\* A patient object: its id and the identity of the JS object (Object.is).
Pt(i, r) == [id |-> i, ref |-> r]
\* activePatient = null
Null == Pt(-1, 0)
\* Bodies the backend returns for GET /patients: objects 1..n of the array.
ServerLists == { <<>>, <<Pt(1, 1)>>, <<Pt(1, 1), Pt(2, 2)>> }
\* Ids of the patient POST /patients returns: none usable (falsy), or one that
\* the list may already hold.
CreatedIds == {0, 2}
\* The object built from the n-th POST /patients response: a fresh identity.
Created(i, n) == Pt(i, -n)

\* Banner texts.
NoError == ""
ErrLoadPatients == "Unable to load patients."
ErrLoadHistory == "Unable to load chat history."
ErrCreatePatient == "Unable to create patient."
ErrSend == "Unable to send message. Please try again."

\* ---------------------------------------------------------------- messages
\* agent, content: fields of the Message.  owner (the patient the message was
\* loaded or produced for) and sid (the number of the send that produced it,
\* 0: history) are bookkeeping of the model; id and ts (Date.now()) are left out.
Msg(a, o, s, c) == [agent |-> a, owner |-> o, sid |-> s, content |-> c]

Agent1Default ==
    <<"I'm Agent 1. I will ask you health-related questions to record symptoms.">>
Agent2Default ==
    <<"I'm Agent 2. Based on symptoms, I will recommend appropriate medicine.">>

\* A field missing from a response body.
Absent == Msg("none", -1, 0, <<>>)

\* ------------------------------------------------------------------- state
VARIABLES
    patients,        \* useState([])     : sequence of patient objects
    activePatient,   \* useState(null)   : a patient object or Null
    messages,        \* useState([])     : sequence of messages
    userInput,       \* useState("")     : sequence of characters
    loading,         \* useState(false)
    savingPatient,   \* useState(false)
    error,           \* useState("")
    view,            \* what the last render saw: the handlers' closures
    listReq,         \* GET /patients in flight
    histReqs,        \* GET /patients/{id}/history in flight, per id
    sendReqs,        \* POST /chat/send in flight: a set of [sid, pid]
    createReqs,      \* POST /patients in flight: a set of submission numbers
    nSends,          \* sends accepted so far
    nCreates,        \* create submissions accepted so far
    nSelects,        \* patient selections so far
    call,            \* services/api.js: the call under examination
    ret              \* services/api.js: what that call produced

reqs == <<listReq, histReqs, sendReqs, createReqs>>
counters == <<nSends, nCreates, nSelects>>
api == <<call, ret>>
vars == <<patients, activePatient, messages, userInput, loading, savingPatient,
          error, view, reqs, counters, api>>

\* ------------------------------------------------------------ pure helpers
\* White space as String.prototype.trim and the regular expression \s see it.
IsSpace(c) == c = " " \/ c = "\t" \/ c = "\n"

\* String.prototype.trim: leading and trailing whitespace removed.
RECURSIVE TrimLeft(_)
TrimLeft(s) ==
    IF s # <<>> /\ IsSpace(Head(s)) THEN TrimLeft(Tail(s)) ELSE s

RECURSIVE TrimRight(_)
TrimRight(s) ==
    IF s # <<>> /\ IsSpace(s[Len(s)])
    THEN TrimRight(SubSeq(s, 1, Len(s) - 1))
    ELSE s

Trim(s) == TrimRight(TrimLeft(s))

\* userInput.trim().length > 0 && !!activePatient && !loading
\* (three independent tests; none has an effect, so their order is free)
CanSend(input, active, busy) ==
    /\ active # Null
    /\ ~busy
    /\ Len(Trim(input)) > 0

\* The values a render hands to the handlers it creates.
Snapshot ==
    [userInput |-> userInput, activePatient |-> activePatient,
     loading |-> loading, patients |-> patients, saving |-> savingPatient]

\* canSend of the last render (useMemo runs during the render).
canSend == CanSend(view.userInput, view.activePatient, view.loading)

Elems(s) == {s[i] : i \in 1..Len(s)}

\* Ids for which the history effect issues a request (`activePatient.id`).
TruthyIds == PatientIds \ {0}

RECURSIVE SumOver(_, _)
SumOver(f, S) ==
    IF S = {} THEN 0
    ELSE LET x == CHOOSE y \in S : TRUE IN f[x] + SumOver(f, S \ {x})

PendingHistory == SumOver(histReqs, TruthyIds)

\* ------------------------------------------------------ backend responses
\* Bodies of GET /patients/{id}/history: null, {} or {messages: [...]}.
HistoryBodies(p) ==
    { [hasMessages |-> FALSE, messages |-> <<>>],
      [hasMessages |-> TRUE, messages |-> <<>>],
      [hasMessages |-> TRUE,
       messages |-> <<Msg("agent1", p, 0, <<"history">>)>>] }

\* Bodies of POST /chat/send: any subset of the fields agent1, agent2 (a null
\* body reads like the body with neither: `resp?.agent1`).
SendBodies(r) ==
    { [agent1 |-> a1, agent2 |-> a2] :
        a1 \in {Absent, Msg("agent1", r.pid, r.sid, <<"reply1">>)},
        a2 \in {Absent, Msg("agent2", r.pid, r.sid, <<"reply2">>)} }

\* ------------------------------------------------------------------- Init
\* The state after the first render and its two mount effects: the list
\* request is in flight, and the history effect saw activePatient = null.
AppInit ==
    /\ patients = <<>>
    /\ activePatient = Null
    /\ messages = <<>>
    /\ userInput = <<>>
    /\ loading = FALSE
    /\ savingPatient = FALSE
    /\ error = NoError
    /\ view = [userInput |-> <<>>, activePatient |-> Null, loading |-> FALSE,
               patients |-> <<>>, saving |-> FALSE]
    /\ listReq = TRUE
    /\ histReqs = [p \in TruthyIds |-> 0]
    /\ sendReqs = {}
    /\ createReqs = {}
    /\ nSends = 0
    /\ nCreates = 0
    /\ nSelects = 0

\* No call of the REST client is under examination.
NoCall == [fn |-> "none"]

\* The application as it starts.
Init ==
    /\ AppInit
    /\ call = NoCall
    /\ ret = NoCall

\* ---------------------------------------------------------------- actions
\* ListOk with the last entry of the list selected instead of the first.
ListOkSelectsLast(data) ==
    /\ listReq
    /\ listReq' = FALSE
    /\ patients' = data
    /\ activePatient' = IF Len(data) > 0 THEN data[Len(data)] ELSE activePatient
    /\ UNCHANGED <<messages, userInput, loading, savingPatient, error, view,
                   histReqs, sendReqs, createReqs, counters, api>>

\* App, initial-load effect: fetchPatients() resolved with `data` (a null
\* body reads like the empty array: `data || []`).
ListOk(data) ==
    /\ listReq
    /\ listReq' = FALSE
    /\ patients' = data
    /\ activePatient' = IF Len(data) > 0 THEN data[1] ELSE activePatient
    /\ UNCHANGED <<messages, userInput, loading, savingPatient, error, view,
                   histReqs, sendReqs, createReqs, counters, api>>

\* App, initial-load effect: fetchPatients() rejected.
ListFail ==
    /\ listReq
    /\ listReq' = FALSE
    /\ error' = ErrLoadPatients
    /\ UNCHANGED <<patients, activePatient, messages, userInput, loading,
                   savingPatient, view, histReqs, sendReqs, createReqs,
                   counters, api>>

\* The history-loading effect, run for the active patient `p` of a render
\* whose activePatient differs from the previous render's.
HistoryEffect(p) ==
    IF p = Null \/ p.id = 0
    THEN /\ messages' = <<>>
         /\ UNCHANGED histReqs
    ELSE /\ histReqs' = [histReqs EXCEPT ![p.id] = @ + 1]
         /\ UNCHANGED messages

\* A render of App with the current state, and the effects it triggers.
Render ==
    /\ view # Snapshot
    /\ view' = Snapshot
    /\ IF activePatient # view.activePatient
       THEN HistoryEffect(activePatient)
       ELSE UNCHANGED <<messages, histReqs>>
    /\ UNCHANGED <<patients, activePatient, userInput, loading, savingPatient,
                   error, listReq, sendReqs, createReqs, counters, api>>

\* History effect: fetchPatientHistory(p) resolved with body `h`.
HistOk(p, h) ==
    /\ histReqs[p] > 0
    /\ histReqs' = [histReqs EXCEPT ![p] = @ - 1]
    /\ messages' = IF h.hasMessages THEN h.messages ELSE <<>>
    /\ UNCHANGED <<patients, activePatient, userInput, loading, savingPatient,
                   error, view, listReq, sendReqs, createReqs, counters, api>>

\* History effect: fetchPatientHistory(p) rejected.
HistFail(p) ==
    /\ histReqs[p] > 0
    /\ histReqs' = [histReqs EXCEPT ![p] = @ - 1]
    /\ error' = ErrLoadHistory
    /\ UNCHANGED <<patients, activePatient, messages, userInput, loading,
                   savingPatient, view, listReq, sendReqs, createReqs,
                   counters, api>>

\* MainChat, textarea onChange: setUserInput(e.target.value).
Type(s) ==
    /\ userInput' = s
    /\ UNCHANGED <<patients, activePatient, messages, loading, savingPatient,
                   error, view, reqs, counters, api>>

\* handleSelectPatient(p), p an entry of the rendered sidebar.
SelectPatient(p) ==
    /\ nSends + nCreates + nSelects < MaxOps
    /\ activePatient' = p
    /\ error' = NoError
    /\ nSelects' = nSelects + 1
    /\ UNCHANGED <<patients, messages, userInput, loading, savingPatient,
                   view, reqs, nSends, nCreates, api>>

\* The message handleSend builds from the input its render saw.
UserMsg(pid, sid, input) == Msg("user", pid, sid, Trim(input))

\* handleSend, past its guard: the optimistic append and the request.
AcceptSend ==
    LET r == [sid |-> nSends + 1, pid |-> view.activePatient.id] IN
    /\ loading' = TRUE
    /\ error' = NoError
    /\ messages' = Append(messages, UserMsg(r.pid, r.sid, view.userInput))
    /\ userInput' = <<>>
    /\ sendReqs' = sendReqs \cup {r}
    /\ nSends' = nSends + 1
    /\ UNCHANGED <<patients, activePatient, savingPatient, view, listReq,
                   histReqs, createReqs, nCreates, nSelects, api>>

\* handleSend, called by the Send button's onClick or by Enter in the textarea.
\* handleSend without its first line.
HandleSendNoGuard ==
    /\ nSends + nCreates + nSelects < MaxOps
    /\ AcceptSend

HandleSend ==
    \/ /\ ~canSend
       /\ UNCHANGED vars
    \/ /\ canSend
       /\ nSends + nCreates + nSelects < MaxOps
       /\ AcceptSend

\* The Send button: onClick={onSend}, disabled={!canSend}.
ClickSend ==
    /\ canSend
    /\ HandleSend

\* Keys pressed in the textarea.  Any other key takes the same branch of the
\* handler as Enter with Shift.
Keys == {"Enter"}
\* The textarea's onKeyDown: Enter without Shift submits.  Any other key is
\* left to the textarea, whose change arrives through onChange (Type).
KeyDown(key, shift) ==
    IF key = "Enter" /\ ~shift THEN HandleSend ELSE UNCHANGED vars

\* `resp?.agent1 || {...}`: the field, or the client-built placeholder.
Agent1Msg(r, resp) ==
    IF resp.agent1 # Absent THEN resp.agent1
    ELSE Msg("agent1", r.pid, r.sid, Agent1Default)

\* Agent2Msg with the placeholder of agent1 pasted in.
Agent2MsgPasted(r, resp) ==
    IF resp.agent2 # Absent THEN resp.agent2
    ELSE Msg("agent1", r.pid, r.sid, Agent1Default)

\* `resp?.agent2 || {...}`
Agent2Msg(r, resp) ==
    IF resp.agent2 # Absent THEN resp.agent2
    ELSE Msg("agent2", r.pid, r.sid, Agent2Default)

\* SendOk with the two agent messages appended in the other order.
SendOkAgent2First(r, resp) ==
    /\ r \in sendReqs
    /\ sendReqs' = sendReqs \ {r}
    /\ messages' = messages \o <<Agent2Msg(r, resp), Agent1Msg(r, resp)>>
    /\ loading' = FALSE
    /\ UNCHANGED <<patients, activePatient, userInput, savingPatient, error,
                   view, listReq, histReqs, createReqs, counters, api>>

\* handleSend after the await: sendChatMessage resolved with body `resp`.
SendOk(r, resp) ==
    /\ r \in sendReqs
    /\ sendReqs' = sendReqs \ {r}
    /\ messages' = messages \o <<Agent1Msg(r, resp), Agent2Msg(r, resp)>>
    /\ loading' = FALSE
    /\ UNCHANGED <<patients, activePatient, userInput, savingPatient, error,
                   view, listReq, histReqs, createReqs, counters, api>>

\* SendFail with the optimistic user message taken back.
SendFailRollsBack(r) ==
    /\ r \in sendReqs
    /\ sendReqs' = sendReqs \ {r}
    /\ error' = ErrSend
    /\ loading' = FALSE
    /\ messages' = SelectSeq(messages, LAMBDA m : m.sid # r.sid)
    /\ UNCHANGED <<patients, activePatient, userInput, savingPatient,
                   view, listReq, histReqs, createReqs, counters, api>>

\* handleSend after the await: sendChatMessage rejected.
SendFail(r) ==
    /\ r \in sendReqs
    /\ sendReqs' = sendReqs \ {r}
    /\ error' = ErrSend
    /\ loading' = FALSE
    /\ UNCHANGED <<patients, activePatient, messages, userInput, savingPatient,
                   view, listReq, histReqs, createReqs, counters, api>>

\* handleCreatePatient, called by the sidebar's New button, which the last
\* render disabled while saving; `named`: prompt() returned a non-empty name.
HandleCreatePatient(named) ==
    /\ ~view.saving
    /\ IF ~named
       THEN UNCHANGED vars
       ELSE /\ nSends + nCreates + nSelects < MaxOps
            /\ savingPatient' = TRUE
            /\ createReqs' = createReqs \cup {nCreates + 1}
            /\ nCreates' = nCreates + 1
            /\ UNCHANGED <<patients, activePatient, messages, userInput,
                           loading, error, view, listReq, histReqs, sendReqs,
                           nSends, nSelects, api>>

\* CreateOk with an entry of the same id replaced in place (else prepended).
CreateOkReplaces(n, i) ==
    /\ n \in createReqs
    /\ createReqs' = createReqs \ {n}
    /\ patients' =
          IF \E k \in 1..Len(patients) : patients[k].id = i
          THEN [k \in 1..Len(patients) |->
                  IF patients[k].id = i THEN Created(i, n) ELSE patients[k]]
          ELSE <<Created(i, n)>> \o patients
    /\ activePatient' = Created(i, n)
    /\ savingPatient' = FALSE
    /\ UNCHANGED <<messages, userInput, loading, error, view, listReq,
                   histReqs, sendReqs, counters, api>>

\* handleCreatePatient after the await: the upsert resolved with a patient
\* whose id is `i`.
CreateOk(n, i) ==
    /\ n \in createReqs
    /\ createReqs' = createReqs \ {n}
    /\ patients' = <<Created(i, n)>> \o patients
    /\ activePatient' = Created(i, n)
    /\ savingPatient' = FALSE
    /\ UNCHANGED <<messages, userInput, loading, error, view, listReq,
                   histReqs, sendReqs, counters, api>>

\* handleCreatePatient after the await: the upsert rejected.
CreateFail(n) ==
    /\ n \in createReqs
    /\ createReqs' = createReqs \ {n}
    /\ error' = ErrCreatePatient
    /\ savingPatient' = FALSE
    /\ UNCHANGED <<patients, activePatient, messages, userInput, loading,
                   view, listReq, histReqs, sendReqs, counters, api>>

\* ------------------------------------------------------------ specification
Next ==
    \/ Render
    \/ \E data \in ServerLists : ListOk(data)
    \/ ListFail
    \/ \E p \in TruthyIds : \E h \in HistoryBodies(p) : HistOk(p, h)
    \/ \E p \in TruthyIds : HistFail(p)
    \/ \E s \in Inputs : Type(s)
    \/ \E p \in Elems(view.patients) : SelectPatient(p)
    \/ ClickSend
    \/ \E key \in Keys : \E shift \in BOOLEAN : KeyDown(key, shift)
    \/ \E r \in sendReqs : \E resp \in SendBodies(r) : SendOk(r, resp)
    \/ \E r \in sendReqs : SendFail(r)
    \/ \E named \in BOOLEAN : HandleCreatePatient(named)
    \/ \E n \in createReqs : \E i \in CreatedIds : CreateOk(n, i)
    \/ \E n \in createReqs : CreateFail(n)

Spec == Init /\ [][Next]_vars

\* =================================================== REST client (api.js)
\* The functions of services/api.js are examined one call at a time: `call`
\* holds the function and its inputs, `ret` what the call produced.  The
\* application's own state does not take part.
app == <<patients, activePatient, messages, userInput, loading, savingPatient,
         error, view, reqs, counters>>

\* Strings are sequences of pieces: data (bodies, field values, URLs) is kept
\* character by character, the fixed parts of a template literal are kept
\* whole.
StartsWith(s, pre) ==
    Len(pre) <= Len(s) /\ SubSeq(s, 1, Len(pre)) = pre
EndsWith(s, suf) ==
    Len(suf) <= Len(s) /\ SubSeq(s, Len(s) - Len(suf) + 1, Len(s)) = suf
Contains(s, part) ==
    \E k \in 0..(Len(s) - Len(part)) : SubSeq(s, k + 1, k + Len(part)) = part
\* s.slice(0, n)
Take(s, n) == SubSeq(s, 1, IF Len(s) < n THEN Len(s) ELSE n)

\* ------------------------------------------------------------- JS values
JV(t, s, n) == [t |-> t, s |-> s, n |-> n]
Undefined == JV("undefined", <<>>, 0)
JNull == JV("null", <<>>, 0)
JStr(s) == JV("string", s, 0)
JNum(n) == JV("number", <<>>, n)
JBool(b) == JV("boolean", <<>>, IF b THEN 1 ELSE 0)
\* An object or array value; as a body, the object whose members are listed.
JObject == JV("object", <<>>, 0)

\* ToBoolean, as `if (x)` and `a || b` apply it.
Truthy(v) ==
    CASE v.t = "string" -> v.s # <<>>
      [] v.t = "number" -> v.n # 0
      [] v.t = "boolean" -> v.n = 1
      [] v.t = "object" -> TRUE
      [] OTHER -> FALSE

Digits == <<"0", "1", "2", "3", "4", "5", "6", "7", "8", "9">>
\* Number to decimal text.
RECURSIVE NumStr(_)
NumStr(n) ==
    IF n < Len(Digits)
    THEN <<Digits[n + 1]>>
    ELSE NumStr(n \div Len(Digits)) \o <<Digits[(n % Len(Digits)) + 1]>>

\* `${v}` in a template literal.
ToStr(v) ==
    CASE v.t = "string" -> v.s
      [] v.t = "number" -> NumStr(v.n)
      [] v.t = "boolean" -> IF v.n = 1 THEN <<"true">> ELSE <<"false">>
      [] v.t = "object" -> <<"[object Object]">>
      [] OTHER -> <<v.t>>

\* ------------------------------------------------------------- responses
\* A response body: text that is not JSON, or a JSON document `data` with
\* the three members the client looks at (Undefined: member absent).
TextBody(t) ==
    [json |-> FALSE, text |-> t, data |-> JNull,
     detail |-> Undefined, message |-> Undefined, error |-> Undefined]
JsonBody(data, d, m, e) ==
    [json |-> TRUE, text |-> <<>>, data |-> data,
     detail |-> d, message |-> m, error |-> e]
\* What tryParseJson yields for a body that is not JSON.
NullData == JsonBody(JNull, Undefined, Undefined, Undefined)

\* The maximal snippet length.
SnippetMax == 160
\* An error page, and a page longer than the snippet even when collapsed.
HtmlText == <<"<", "p", ">", " ", "\n", " ", "4", "0", "4", "\t", "\n">>
LongText ==
    [k \in 1..(SnippetMax + SnippetMax) |->
        IF k % 5 \in {3, 4} THEN " " ELSE "x"]
BodyTexts == { <<>>, HtmlText, LongText }

DetailValues ==
    { Undefined, JStr(<<"b", "a", "d">>), JStr(<<>>), JNum(0), JNull,
      JBool(FALSE), JObject }
Bodies ==
    { TextBody(t) : t \in BodyTexts }
    \cup { JsonBody(v, Undefined, Undefined, Undefined) : v \in {JNull, JNum(5)} }
    \cup { JsonBody(JObject, d, m, e) :
             d \in DetailValues,
             m \in {Undefined, JStr(<<"m", "s", "g">>)},
             e \in {Undefined, JStr(<<"e", "r", "r">>)} }

\* The text of a JSON value and of a JSON body.
JsonValueText(v) ==
    CASE v.t = "string" -> <<"\"">> \o v.s \o <<"\"">>
      [] v.t = "number" -> NumStr(v.n)
      [] v.t = "boolean" -> IF v.n = 1 THEN <<"t", "r", "u", "e">>
                                       ELSE <<"f", "a", "l", "s", "e">>
      [] v.t = "object" -> <<"{", "}">>
      [] OTHER -> <<"n", "u", "l", "l">>
Member(key, v, first) ==
    IF v = Undefined THEN <<>>
    ELSE (IF first THEN <<>> ELSE <<",">>)
         \o <<"\"">> \o key \o <<"\"", ":">> \o JsonValueText(v)
JsonText(b) ==
    IF b.data # JObject THEN JsonValueText(b.data)
    ELSE <<"{">>
         \o Member(<<"d", "e", "t", "a", "i", "l">>, b.detail, TRUE)
         \o Member(<<"m", "e", "s", "s", "a", "g", "e">>, b.message,
                   b.detail = Undefined)
         \o Member(<<"e", "r", "r", "o", "r">>, b.error,
                   b.detail = Undefined /\ b.message = Undefined)
         \o <<"}">>
BodyText(b) == IF b.json THEN JsonText(b) ELSE b.text

StatusText(st) ==
    CASE st = 200 -> <<"OK">>
      [] st = 404 -> <<"Not Found">>
      [] OTHER -> <<"Internal Server Error">>
\* A response: `readOnce` says whether the body can be read only once (as
\* with a fetch Response), `textFails` whether reading the text fails anyway.
Responses ==
    [status : {200, 404, 500}, body : Bodies,
     readOnce : BOOLEAN, textFails : BOOLEAN]
Ok(res) == res.status \in 200..299

\* ------------------------------------------------------ error construction
\* tryParseJson: res.json(), or null when it throws.
TryParseJson(res) == IF res.body.json THEN res.body ELSE NullData

\* res.text() as buildHttpError calls it: after res.json() has been tried.
ReadText(res) ==
    IF res.readOnce \/ res.textFails
    THEN [ok |-> FALSE, text |-> <<>>]
    ELSE [ok |-> TRUE, text |-> BodyText(res.body)]

\* text.replace(/\s+/g, " "): every run of white space becomes one space.
\* Computed on the two halves of the text; a run that spans the cut is
\* joined again.
RECURSIVE CollapseSpace(_)
CollapseSpace(s) ==
    IF Len(s) = 0 THEN <<>>
    ELSE IF Len(s) = 1 THEN (IF IsSpace(s[1]) THEN <<" ">> ELSE s)
    ELSE LET half == Len(s) \div 2
             l == CollapseSpace(SubSeq(s, 1, half))
             r == CollapseSpace(SubSeq(s, half + 1, Len(s)))
         IN  IF l[Len(l)] = " " /\ r[1] = " " THEN l \o Tail(r) ELSE l \o r
Snippet(text) == Take(CollapseSpace(text), SnippetMax)

\* data?.message || data?.error
MessageOrError(data) ==
    IF Truthy(data.message) THEN data.message ELSE data.error
\* As Detail, but with `message` looked at first.
DetailMessageFirst(data) ==
    IF Truthy(data.message) THEN data.message
    ELSE IF Truthy(data.detail) THEN data.detail ELSE data.error
\* data?.detail || data?.message || data?.error
Detail(data) ==
    IF Truthy(data.detail) THEN data.detail ELSE MessageOrError(data)

\* What a function hands back: a value it returned, or one it threw.
Returned(m) == [returned |-> TRUE, message |-> m]
Thrown(m) == [returned |-> FALSE, message |-> m]

\* The separator before the snippet (an em dash between two spaces).
Dash == <<" -- ">>
HttpLine(res) ==
    <<"HTTP ">> \o NumStr(res.status) \o <<" ">> \o StatusText(res.status)

\* buildHttpError without the try/catch around res.text().
BuildHttpErrorNoCatch(res, defaultMsg) ==
    LET data == TryParseJson(res)
        text == ReadText(res)
    IN  IF Truthy(data.data) /\ Truthy(Detail(data))
        THEN Returned(defaultMsg \o <<": ">> \o ToStr(Detail(data)))
        ELSE IF text.ok
             THEN Returned(defaultMsg \o <<": ">> \o HttpLine(res)
                           \o Dash \o Snippet(text.text))
             ELSE Thrown(<<"TypeError">>)

\* buildHttpError(res, defaultMsg)
BuildHttpError(res, defaultMsg) ==
    LET data == TryParseJson(res)
        text == ReadText(res)
    IN  IF Truthy(data.data) /\ Truthy(Detail(data))
        THEN Returned(defaultMsg \o <<": ">> \o ToStr(Detail(data)))
        ELSE IF text.ok
             THEN Returned(defaultMsg \o <<": ">> \o HttpLine(res)
                           \o Dash \o Snippet(text.text))
             ELSE Returned(defaultMsg \o <<": ">> \o HttpLine(res))

\* ------------------------------------------------------------- operations
Operations ==
    {"fetchPatients", "fetchPatientHistory", "createOrUpdatePatient",
     "sendChatMessage"}
DefaultMsg(op, pid) ==
    CASE op = "fetchPatients" -> <<"Failed to fetch patients">>
      [] op = "fetchPatientHistory" ->
            <<"Failed to fetch history for ">> \o ToStr(JNum(pid))
      [] op = "createOrUpdatePatient" -> <<"Failed to save patient">>
      [] OTHER -> <<"Failed to send message">>

\* The part the four operations share: `if (!res.ok) throw await
\* buildHttpError(res, msg); return res.json();`
Operation(op, pid, res) ==
    IF Ok(res)
    THEN IF res.body.json
         THEN [fn |-> op, outcome |-> "resolved", built |-> FALSE,
               message |-> <<>>]
         ELSE [fn |-> op, outcome |-> "rejected", built |-> FALSE,
               message |-> <<"SyntaxError">>]
    ELSE LET e == BuildHttpError(res, DefaultMsg(op, pid))
         IN  [fn |-> op, outcome |-> "rejected", built |-> e.returned,
              message |-> e.message]

HttpCalls ==
    { [fn |-> op, pid |-> p, res |-> r] :
        op \in Operations, p \in TruthyIds, r \in Responses }

InitHttp ==
    /\ AppInit
    /\ call \in { c \in HttpCalls : c.fn = "fetchPatientHistory" \/ c.pid = 1 }
    /\ ret = NoCall

\* The response arrives and the operation settles.
Settle ==
    /\ call.fn \in Operations
    /\ ret.fn = "none"
    /\ ret' = Operation(call.fn, call.pid, call.res)
    /\ UNCHANGED <<call, app>>

NextHttp == Settle
SpecHttp == InitHttp /\ [][NextHttp]_vars

\* ------------------------------------------------------ base URL resolution
\* Length of the URL texts that are tried exhaustively.
MaxUrlLen == 5
\* Trailing slashes tried after a well-formed value.
MaxSlashes == 2

UrlChars == {"/", "a", "p", "i", "h"}
\* "/api"
ApiPath == <<"/", "a", "p", "i">>
\* Origins (scheme://host[:port]); the last one has a host named "api".
Origins ==
    { <<"h", ":", "/", "/", "h">>,
      <<"h", ":", "/", "/", "h", ":", "3">>,
      <<"h", ":", "/", "/", "a", "p", "i">> }
Slashes(n) == [k \in 1..n |-> "/"]
\* Values as they are written into REACT_APP_BACKEND_URL: an origin, perhaps
\* followed by "/api" in some spelling, once or twice, by slashes, and by
\* white space around it.
ShapedUrls ==
    { pad \o o \o suf \o Slashes(n) \o pad :
        pad \in {<<>>, <<" ">>},
        o \in Origins,
        suf \in {<<>>, ApiPath, <<"/", "A", "P", "I">>, ApiPath \o ApiPath},
        n \in 0..MaxSlashes }
UrlTexts ==
    ShapedUrls \cup UNION { [1..n -> UrlChars] : n \in 0..MaxUrlLen }
\* process.env.REACT_APP_BACKEND_URL: unset, or a string.
EnvUrls == {Undefined} \cup { JStr(s) : s \in UrlTexts }

\* String.prototype.toLowerCase on the letters that occur.
LowerChar(c) ==
    CASE c = "A" -> "a"
      [] c = "P" -> "p"
      [] c = "I" -> "i"
      [] OTHER -> c
ToLowerCase(s) == [k \in 1..Len(s) |-> LowerChar(s[k])]

\* .replace(/\/+$/, "")
RECURSIVE StripSlashes(_)
StripSlashes(s) ==
    IF s # <<>> /\ s[Len(s)] = "/"
    THEN StripSlashes(SubSeq(s, 1, Len(s) - 1))
    ELSE s

\* normalizeBaseUrl(url)
NormalizeBaseUrl(url) ==
    IF ~Truthy(url) THEN ApiPath
    ELSE LET u == StripSlashes(Trim(ToStr(url)))
             v == IF EndsWith(ToLowerCase(u), ApiPath)
                  THEN SubSeq(u, 1, Len(u) - Len(ApiPath))
                  ELSE u
         IN  IF v = <<>> THEN ApiPath ELSE v

InitUrl ==
    /\ AppInit
    /\ call \in { [fn |-> "normalizeBaseUrl", url |-> u] : u \in EnvUrls }
    /\ ret = NoCall

\* Module load: BASE_URL = normalizeBaseUrl(process.env.REACT_APP_BACKEND_URL)
Resolve ==
    /\ call.fn = "normalizeBaseUrl"
    /\ ret.fn = "none"
    /\ ret' = [fn |-> "normalizeBaseUrl", url |-> NormalizeBaseUrl(call.url)]
    /\ UNCHANGED <<call, app>>

NextUrl == Resolve
SpecUrl == InitUrl /\ [][NextUrl]_vars

\* ---------------------------------------------------- upsert request body
\* Members a patient object may have, in insertion order.
Fields == <<"id", "name", "age">>
FieldNames == { Fields[k] : k \in 1..Len(Fields) }
\* The object has no such member (as opposed to a member set to undefined).
NoMember == JV("none", <<>>, 0)
MemberValues ==
    { NoMember, Undefined, JNull, JNum(0), JStr(<<>>), JStr(<<"x">>),
      JBool(FALSE) }
NoMembers == [f \in FieldNames |-> NoMember]
\* The `patient` argument: left out, null, or an object with its members.
Patients ==
    { [arg |-> a, members |-> NoMembers] : a \in {Undefined, JNull} }
    \cup { [arg |-> JObject, members |-> m] :
             m \in [FieldNames -> MemberValues] }

\* Object.entries(patient || {})
Entries(patient) ==
    IF Truthy(patient.arg) THEN patient.members ELSE NoMembers

\* As Clean, but keeping only the members with a truthy value.
CleanTruthy(patient) ==
    [f \in FieldNames |->
        IF Truthy(Entries(patient)[f]) THEN Entries(patient)[f] ELSE NoMember]
\* Object.fromEntries(Object.entries(patient || {})
\*     .filter(([, v]) => v !== undefined && v !== null))
Clean(patient) ==
    [f \in FieldNames |->
        IF Entries(patient)[f] \in {Undefined, JNull}
        THEN NoMember
        ELSE Entries(patient)[f]]

\* The text of one member as JSON.stringify writes it.
MemberText(f, v) == <<"\"", f, "\"", ":">> \o JsonValueText(v)
\* JSON.stringify of an object: its members in order, separated by commas;
\* a member whose value is undefined is left out.
RECURSIVE MembersText(_, _, _)
MembersText(obj, k, first) ==
    IF k > Len(Fields) THEN <<>>
    ELSE IF obj[Fields[k]] \in {NoMember, Undefined}
         THEN MembersText(obj, k + 1, first)
         ELSE (IF first THEN <<>> ELSE <<",">>)
              \o MemberText(Fields[k], obj[Fields[k]])
              \o MembersText(obj, k + 1, FALSE)
Stringify(obj) == <<"{">> \o MembersText(obj, 1, TRUE) \o <<"}">>

\* The request createOrUpdatePatient(patient) issues.
UpsertRequest(patient) ==
    [fn |-> "createOrUpdatePatient", method |-> "POST",
     path |-> <<"/patients">>, body |-> Stringify(Clean(patient))]

InitUpsert ==
    /\ AppInit
    /\ call \in { [fn |-> "createOrUpdatePatient", patient |-> p] :
                    p \in Patients }
    /\ ret = NoCall

\* createOrUpdatePatient builds and issues its request.
IssueUpsert ==
    /\ call.fn = "createOrUpdatePatient"
    /\ ret.fn = "none"
    /\ ret' = UpsertRequest(call.patient)
    /\ UNCHANGED <<call, app>>

NextUpsert == IssueUpsert
SpecUpsert == InitUpsert /\ [][NextUpsert]_vars

\* ================================================================== claims

\* A state the handlers see as it is: the last render saw the current values.
Rendered == view = Snapshot

\* C1: every message in `messages` belongs to the conversation of the current
\* active patient; no message loaded or produced for another patient is
\* ever present.
C1_MessagesOfActivePatient ==
    \A i \in 1..Len(messages) :
        activePatient # Null /\ messages[i].owner = activePatient.id

\* C2: when the active patient changes from one patient to another, the
\* message list is already empty when the history request for the new
\* patient is issued.
C2_ClearedBeforeFetch ==
    [][\A p \in TruthyIds :
          (histReqs'[p] > histReqs[p] /\ view.activePatient # Null)
              => messages' = <<>>]_vars

\* C3: canSend is true exactly when the trimmed input is non-empty, an active
\* patient is set and no send request is in flight.
C3_CanSendIff ==
    Rendered =>
        (canSend <=> (/\ Len(Trim(userInput)) > 0
                      /\ activePatient # Null
                      /\ sendReqs = {}))

\* C4: at most one send-chat-message request is in flight at any time, also
\* when two submit events arrive before the view re-renders.
C4_AtMostOneSend == Cardinality(sendReqs) <= 1

\* Position of an agent in one send's exchange.
Rank(a) == CASE a = "user" -> 1 [] a = "agent1" -> 2 [] OTHER -> 3

\* The messages of each send stand in the order user, agent1, agent2.
OrderedPerSend(ms) ==
    \A i, j \in 1..Len(ms) :
        (ms[i].sid # 0 /\ ms[i].sid = ms[j].sid
            /\ Rank(ms[i].agent) < Rank(ms[j].agent)) => i < j

\* C5: a send appends its user message when it is accepted, its response
\* appends the agent1 message immediately before the agent2 message, and the
\* messages of one send stand in the order user, agent1, agent2.
C5_SendOrder ==
    [][/\ (AcceptSend /\ canSend) =>
            /\ Len(messages') = Len(messages) + 1
            /\ SubSeq(messages', 1, Len(messages)) = messages
            /\ messages'[Len(messages')].agent = "user"
            /\ messages'[Len(messages')].sid = nSends'
       /\ \A r \in sendReqs \ sendReqs' : \A resp \in SendBodies(r) :
            SendOk(r, resp) =>
                /\ Len(messages') = Len(messages) + 2
                /\ SubSeq(messages', 1, Len(messages)) = messages
                /\ messages'[Len(messages) + 1].agent = "agent1"
                /\ messages'[Len(messages) + 2].agent = "agent2"
                /\ messages'[Len(messages) + 1].sid = r.sid
                /\ messages'[Len(messages) + 2].sid = r.sid
       /\ (messages' # messages => OrderedPerSend(messages'))]_vars

\* C5 witness: a completed send whose three messages stand together.
C5_Witness ==
    \E i \in 1..Len(messages) :
        /\ i + 2 <= Len(messages)
        /\ messages[i].agent = "user"
        /\ messages[i + 1].agent = "agent1"
        /\ messages[i + 2].agent = "agent2"
        /\ messages[i].sid = messages[i + 1].sid
        /\ messages[i].sid = messages[i + 2].sid
        /\ [sid |-> messages[i].sid, pid |-> messages[i].owner] \notin sendReqs

\* What a successful send must append for the body `resp`.
Expected1(resp) ==
    IF resp.agent1 # Absent THEN <<resp.agent1.agent, resp.agent1.content>>
    ELSE <<"agent1",
           <<"I'm Agent 1. I will ask you health-related questions to record symptoms.">>>>

Expected2(resp) ==
    IF resp.agent2 # Absent THEN <<resp.agent2.agent, resp.agent2.content>>
    ELSE <<"agent2",
           <<"I'm Agent 2. Based on symptoms, I will recommend appropriate medicine.">>>>

\* C6: a successful send appends exactly two messages, for every subset of
\* the fields agent1, agent2 in the response: the field as received when it
\* is there, else a placeholder tagged with that agent and carrying that
\* agent's default content; agent1's comes first.
C6_TwoAgentMessages ==
    [][\A r \in sendReqs : \A resp \in SendBodies(r) :
          SendOk(r, resp) =>
              LET n == Len(messages)
                  m1 == messages'[n + 1]
                  m2 == messages'[n + 2]
              IN /\ Len(messages') = n + 2
                 /\ SubSeq(messages', 1, n) = messages
                 /\ <<m1.agent, m1.content>> = Expected1(resp)
                 /\ <<m2.agent, m2.content>> = Expected2(resp)]_vars

\* C6 witness: the response {} was received; the list ends with the two
\* placeholders, agent1's first.
C6_Witness ==
    /\ Len(messages) >= 2
    /\ messages[Len(messages) - 1].agent = "agent1"
    /\ messages[Len(messages) - 1].content = Agent1Default
    /\ messages[Len(messages)].agent = "agent2"
    /\ messages[Len(messages)].content = Agent2Default

\* C7: a failed send sets a non-empty error, appends no agent message and
\* takes nothing back: the list is the one before the failure, with the
\* optimistic user message still in it.
C7_FailureKeepsUserMessage ==
    [][\A r \in sendReqs :
          SendFail(r) =>
              /\ error' # NoError
              /\ messages' = messages
              /\ \A i \in 1..Len(messages) :
                    messages[i].sid = r.sid =>
                        \E j \in 1..Len(messages') : messages'[j] = messages[i]]_vars

\* C7 witness: the only send failed; its user message is still listed and
\* no agent message was added.
C7_Witness ==
    /\ error = ErrSend
    /\ sendReqs = {}
    /\ ~loading
    /\ \E i \in 1..Len(messages) :
          messages[i].agent = "user" /\ messages[i].sid # 0
    /\ \A i \in 1..Len(messages) : messages[i].agent # "agent1"

\* C8: loading is true for as long as a send request is in flight.
C8_LoadingWhileInFlight == sendReqs # {} => loading

\* C9: a failed history fetch for the active patient empties the list and
\* sets the error; a successful one sets the list to the returned one.
C9_HistoryResult ==
    [][/\ \A p \in TruthyIds :
            (HistFail(p) /\ activePatient.id = p) =>
                (messages' = <<>> /\ error' # NoError)
       /\ \A p \in TruthyIds : \A h \in HistoryBodies(p) :
            (HistOk(p, h) /\ activePatient.id = p /\ h.hasMessages) =>
                messages' = h.messages]_vars

\* No create-patient submission is in flight or has added a patient.
NothingCreated ==
    /\ createReqs = {}
    /\ \A i \in 1..Len(patients) : patients[i].ref > 0

\* C10: a failed list request leaves the patient list, the active patient
\* and the history requests as they were and sets the error, so that with no
\* patient created the list stays empty, nobody is active and no history
\* request exists; a non-empty list is stored and its first entry selected.
C10_InitialLoad ==
    [][/\ ListFail =>
            /\ patients' = patients
            /\ activePatient' = activePatient
            /\ histReqs' = histReqs
            /\ error' = "Unable to load patients."
       /\ \A data \in ServerLists :
            (ListOk(data) /\ Len(data) > 0) =>
                (patients' = data /\ activePatient' = data[1])
       /\ (error' = "Unable to load patients." /\ NothingCreated') =>
            /\ patients' = <<>>
            /\ activePatient' = Null
            /\ view'.activePatient = Null
            /\ PendingHistory' = 0]_vars

\* C10 witness: the list request failed and nothing was created.
C10_WitnessFailed ==
    /\ ~listReq
    /\ error = ErrLoadPatients
    /\ patients = <<>>
    /\ activePatient = Null
    /\ NothingCreated

\* C11: no two create-patient requests are in flight at the same time, and
\* no create submission starts while savingPatient is true.
C11_AtMostOneCreate ==
    /\ Cardinality(createReqs) <= 1
    /\ createReqs # {} => savingPatient

\* C12: a successful upsert puts the returned patient in front of the
\* unchanged previous list (one entry more, also when the id was already
\* listed) and makes it the active patient; a failed upsert leaves the list
\* and the active patient as they were and sets the error.
C12_CreateResult ==
    [][/\ \A n \in createReqs : \A i \in CreatedIds :
            CreateOk(n, i) =>
                /\ Len(patients') = Len(patients) + 1
                /\ patients'[1].id = i
                /\ patients'[1] \notin Elems(patients)
                /\ SubSeq(patients', 2, Len(patients')) = patients
                /\ activePatient' = patients'[1]
       /\ \A n \in createReqs :
            CreateFail(n) =>
                /\ patients' = patients
                /\ activePatient' = activePatient
                /\ error' # NoError]_vars

\* C12 witness: the created patient heads the list and is active, and the
\* list still holds the older entry with the same id.
C12_Witness ==
    /\ Len(patients) >= 2
    /\ activePatient = patients[1]
    /\ patients[1].ref < 0
    /\ \E k \in 2..Len(patients) : patients[k].id = patients[1].id

\* A step changes the conversation, the input, a flag, the banner, the
\* patients or a request in flight.
Changed ==
    \/ messages' # messages
    \/ userInput' # userInput
    \/ loading' # loading
    \/ error' # error
    \/ sendReqs' # sendReqs
    \/ activePatient' # activePatient
    \/ patients' # patients
    \/ histReqs' # histReqs
    \/ createReqs' # createReqs
    \/ listReq' # listReq

\* C18: a submit (Send button, or Enter without Shift) handled while canSend
\* is false changes neither messages, input, loading, error, patients nor
\* activePatient and issues no request; Enter with Shift never sends.
\* Stated from the effect: a step that changes any of these is neither such
\* a submit nor a key-down with Shift.
C18_RejectedSubmit ==
    [][Changed =>
         /\ ~(~canSend /\ (ClickSend \/ KeyDown("Enter", FALSE)))
         /\ ~(\E key \in Keys : KeyDown(key, TRUE))]_vars

\* C18 witness: text is typed and a patient is active, but a send is in
\* flight, so the rendered canSend is false and a submit is turned down.
C18_Witness ==
    /\ Rendered
    /\ ~canSend
    /\ Len(Trim(userInput)) > 0
    /\ activePatient # Null
    /\ sendReqs # {}

\* C19: the user message a send has appended stays in `messages` for as long
\* as its patient remains the active one, whatever completes meanwhile.
C19_UserMessageStays ==
    [][\A k \in 1..Len(messages) :
          (/\ messages[k].agent = "user"
           /\ messages[k].sid # 0
           /\ activePatient # Null
           /\ messages[k].owner = activePatient.id
           /\ activePatient'.id = activePatient.id)
          => messages[k] \in Elems(messages')]_vars

\* C20: activePatient is null or an element of `patients`, and a patient
\* added by a successful create stays in `patients`.
C20_ActiveInList ==
    [][/\ activePatient' = Null \/ activePatient' \in Elems(patients')
       /\ \A k \in 1..Len(patients) :
            patients[k].ref < 0 => patients[k] \in Elems(patients')]_vars

\* ------------------------------------------------- claims on the REST client
\* An operation has settled on a non-2xx response.
FailedCall == ret.fn \in Operations /\ ~Ok(call.res)
\* ... whose body is a JSON object with a `detail` member.
HasDetail ==
    /\ call.res.body.json
    /\ call.res.body.data = JObject
    /\ call.res.body.detail # Undefined

\* C13: for a non-2xx response whose JSON body has a `detail` member of any
\* value (falsy ones included), the error message ends with ": " followed
\* by that value.
C13_DetailShown ==
    (FailedCall /\ HasDetail) =>
        EndsWith(ret.message, <<": ">> \o ToStr(call.res.body.detail))

\* C13, amended: for a non-2xx response whose JSON body has a truthy `detail`
\* member, whatever `message` and `error` hold, the error message ends with
\* ": " followed by that value.
C13_TruthyDetailShown ==
    (FailedCall /\ HasDetail /\ Truthy(call.res.body.detail)) =>
        EndsWith(ret.message, <<": ">> \o ToStr(call.res.body.detail))

\* C13 witness: an error built from a body that has a truthy detail next to
\* a message and an error member.
C13_Witness ==
    /\ FailedCall /\ HasDetail
    /\ Truthy(call.res.body.detail)
    /\ Truthy(call.res.body.message)
    /\ Truthy(call.res.body.error)

\* C14: for a non-2xx response whose body is not JSON and can be read only
\* once, the error message holds the status code and ends with the snippet
\* of the body text (whitespace runs collapsed, at most 160 characters).
C14_SnippetShown ==
    (FailedCall /\ ~call.res.body.json /\ call.res.readOnce) =>
        /\ Contains(ret.message, NumStr(call.res.status))
        /\ EndsWith(ret.message, Dash \o Snippet(call.res.body.text))

\* C15: for every outcome of the JSON parse and of the text read, the
\* operation rejects with the Error that buildHttpError returned, and its
\* message starts with the operation's default message.
C15_ErrorAlwaysBuilt ==
    FailedCall =>
        /\ ret.outcome = "rejected"
        /\ ret.built
        /\ StartsWith(ret.message, DefaultMsg(call.fn, call.pid))

\* C15 witness: an operation has rejected although neither the JSON parse
\* nor the text read succeeded.
C15_Witness ==
    /\ FailedCall
    /\ ~call.res.body.json
    /\ ~ReadText(call.res).ok
    /\ ret.outcome = "rejected"

\* BASE_URL has been resolved.
Resolved == ret.fn = "normalizeBaseUrl"

\* C16: an unset or empty backend URL resolves to "/api"; an origin, alone
\* or followed by "/api", with any number of trailing slashes, resolves to
\* that origin; of two "/api" suffixes only one is stripped.
C16_BaseUrl ==
    Resolved =>
        /\ ~Truthy(call.url) => ret.url = ApiPath
        /\ \A o \in Origins : \A n \in 0..MaxSlashes :
             /\ call.url = JStr(o \o Slashes(n)) => ret.url = o
             /\ call.url = JStr(o \o ApiPath \o Slashes(n)) => ret.url = o
             /\ call.url = JStr(o \o ApiPath \o ApiPath \o Slashes(n))
                   => ret.url = o \o ApiPath

\* C21: for every input string, normalizeBaseUrl returns a non-empty string
\* that does not end with "/", so that joining it with "/patients" never
\* doubles the slash.
C21_NoTrailingSlash ==
    Resolved =>
        /\ ret.url # <<>>
        /\ ret.url[Len(ret.url)] # "/"

\* The upsert request has been issued.
Issued == ret.fn = "createOrUpdatePatient" /\ call.fn = ret.fn
\* The patient argument is an object.
Given == call.patient.arg = JObject

\* C17: the upsert body holds exactly the members of the given patient whose
\* value is neither undefined nor null, each with its value (0, "" and false
\* are kept); without a patient argument the body is the empty object.
C17_UpsertBody ==
    Issued =>
        /\ \A f \in FieldNames :
             LET v == call.patient.members[f]
             IN  IF Given /\ v \notin {NoMember, Undefined, JNull}
                 THEN Contains(ret.body, MemberText(f, v))
                 ELSE ~Contains(ret.body, <<"\"", f, "\"">>)
        /\ ~Given => ret.body = <<"{", "}">>

\* C17 witness: a body was built from a patient holding 0, the empty string
\* and null.
C17_Witness ==
    /\ Issued /\ Given
    /\ \E f, g, h \in FieldNames :
         /\ call.patient.members[f] = JNum(0)
         /\ call.patient.members[g] = JStr(<<>>)
         /\ call.patient.members[h] = JNull

====
